---- MODULE Spec2Model ----
(***************************************************************************)
(* Model of sr/robot3/accelerometer_board.py: the AccelerometerBoard       *)
(* handle, its construction/validation protocol, the simulator discovery   *)
(* sweep, the text command protocol and the atexit teardown.               *)
(*                                                                         *)
(* Python strings are modelled as sequences of lexical atoms: an atom is   *)
(* either the separator ":" or a non-empty colon-free chunk of text such   *)
(* as "Accelerometer" or "SN1".  The empty string is <<>>.  str.split and  *)
(* ':'.join are computed on these sequences.                               *)
(*                                                                         *)
(* Optional[T] is a sequence of length at most one: None is <<>>.          *)
(* A call's completion is Return(v) or Raise(exc).                         *)
(***************************************************************************)
EXTENDS Integers, Sequences, FiniteSets

VARIABLES heap, hooks, boards, last, phase, exitq, escaped

vars == <<heap, hooks, boards, last, phase, exitq, escaped>>

(***************************************************************************)
(* Bounds of the model.                                                    *)
(***************************************************************************)
\* live handles the process may construct
MaxHandles == 2
\* candidates the simulator registry may list
MaxCandidates == 2
\* atoms in a reply of the pure parsing specification
MaxLen == 7

(***************************************************************************)
(* Strings.                                                                *)
(***************************************************************************)
Colon == ":"

Str(a) == <<a>>

EmptyStr == <<>>

None == <<>>

Some(x) == <<x>>

Return(v) == [kind |-> "return", value |-> v]

\* the value of a local variable: the one element of {expression}
The(S) == CHOOSE x \in S : TRUE

Raise(e) == [kind |-> "raise", exc |-> e]

HasColon(s) == \E i \in 1..Len(s) : s[i] = Colon

FirstColon(s) == CHOOSE i \in 1..Len(s) : s[i] = Colon /\ \A j \in 1..(i-1) : s[j] # Colon

\* str.split() without a separator argument drops empty fields
RECURSIVE split_dropempty(_)
split_dropempty(s) ==
  IF ~HasColon(s) THEN (IF s = EmptyStr THEN <<>> ELSE <<s>>)
  ELSE LET i == FirstColon(s)
       IN (IF i = 1 THEN <<>> ELSE <<SubSeq(s, 1, i - 1)>>)
          \o split_dropempty(SubSeq(s, i + 1, Len(s)))

\* response.split(':')
RECURSIVE split(_)
split(s) ==
  IF ~HasColon(s) THEN <<s>>
  ELSE LET i == FirstColon(s)
       IN <<SubSeq(s, 1, i - 1)>> \o split(SubSeq(s, i + 1, Len(s)))

RECURSIVE join(_)
join(fields) ==
  IF Len(fields) = 0 THEN EmptyStr
  ELSE IF Len(fields) = 1 THEN fields[1]
  ELSE fields[1] \o <<Colon>> \o join(Tail(fields))

(***************************************************************************)
(* Atoms and the literals of the source.                                   *)
(***************************************************************************)
BAUDRATE == 115200

\* get_board_type(): the literal 'Accelerometer'
get_board_type == Str("Accelerometer")

MANUAL == Str("manual")

SBOT_SIMULATOR == Str("sbot_simulator")

IDN == "*IDN?"

STATUS == "*STATUS?"

RESET == "*RESET"

ACC_READ == "ACC:READ?"

(***************************************************************************)
(* Exceptions.  Every exception class of the model derives from Exception. *)
(***************************************************************************)
Exc(cls) == [cls |-> cls]

\* IncorrectBoardError(returned_type, expected_type)
IncorrectBoardError(returned, expected) ==
  [cls |-> "IncorrectBoardError", returned_type |-> returned, expected_type |-> expected]

\* the base classes of an exception class, itself included
Bases(cls) == {cls, "Exception"}

IsInstance(exc, cls) == cls \in Bases(exc.cls)

(***************************************************************************)
(* BoardIdentity: four string fields, each defaulting to the empty string. *)
(* The class is called positionally with the fields of a reply (line 155), *)
(* with no argument (line 57) and with three keywords (lines 118-122).     *)
(***************************************************************************)
BoardIdentityKw(m, t, a, v) ==
  [manufacturer |-> m, board_type |-> t, asset_tag |-> a, sw_version |-> v]

BoardIdentity(args) ==
  IF Len(args) > 4 THEN Raise(Exc("TypeError"))
  ELSE Return(BoardIdentityKw(
         IF Len(args) >= 1 THEN args[1] ELSE EmptyStr,
         IF Len(args) >= 2 THEN args[2] ELSE EmptyStr,
         IF Len(args) >= 3 THEN args[3] ELSE EmptyStr,
         IF Len(args) >= 4 THEN args[4] ELSE EmptyStr))

DefaultIdentity == BoardIdentityKw(EmptyStr, EmptyStr, EmptyStr, EmptyStr)

(***************************************************************************)
(* The call state threaded through the methods: the heap of constructed    *)
(* handles, the atexit registry, what the running call has logged and sent *)
(* so far, and (vals) what each _get_valid_board call of a sweep returned. *)
(***************************************************************************)
Warn(st, msg) == [st EXCEPT !.log = Append(@, msg)]

Sent(st, port, cmd) == [st EXCEPT !.sent = Append(@, [port |-> port, cmd |-> cmd])]

(***************************************************************************)
(* Transport (SerialWrapper).  What the endpoint does is the environment's *)
(* choice: opening may fail; a query either fails or yields a reply line.  *)
(***************************************************************************)
QFail == [ok |-> FALSE, reply |-> EmptyStr]

QReply(s) == [ok |-> TRUE, reply |-> s]

SerialWrapper(port, baud, identity, open_ok) ==
  IF open_ok THEN Return([port |-> port, baud |-> baud, identity |-> identity])
  ELSE Raise(Exc("TransportError"))

set_identity(serial, identity) == [serial EXCEPT !.identity = identity]

query(serial, cmd, q, st) ==
  [st  |-> Sent(st, serial.port, cmd),
   res |-> IF q.ok THEN Return(q.reply) ELSE Raise(Exc("TransportError"))]

(***************************************************************************)
(* AccelerometerBoard.  An object is [_serial, _identity]; _identity is    *)
(* None until __init__ has assigned it.  A handle is an index of heap.     *)
(***************************************************************************)
\* an identify() that queries a second time when its first query failed
identify_retrying(self, q, st) ==
  LET r == query(self._serial, IDN, q, st)
  IN IF r.res.kind = "raise" THEN query(self._serial, IDN, q, r.st)
     ELSE [st |-> r.st, res |-> BoardIdentity(split(r.res.value))]

\* identify(): one *IDN? query, the reply split on ':' into a BoardIdentity
identify(self, q, st) ==
  LET r == query(self._serial, IDN, q, st)
  IN IF r.res.kind = "raise" THEN r
     ELSE [st |-> r.st, res |-> BoardIdentity(split(r.res.value))]

\* the type check left out
TypeMatches_unchecked(identity) == TRUE

\* line 61: the type check of the resolved identity
TypeMatches(identity) == identity.board_type = get_board_type

\* the pre-contact identity kept instead of the resolved one
HeldIdentity_initial(resolved, initial) == initial

\* line 60: the identity the handle holds after identification
HeldIdentity(resolved, initial) == resolved

\* set_identity called before the type check
TransportAtMismatch_cached(serial, held) == set_identity(serial, held)

\* lines 61-63: the raise of the type check comes before set_identity, the
\* transport of a mismatching board is left as it was created
TransportAtMismatch(serial, held) == serial

\* cls(serial_port, initial_identity): out is what the endpoint does
\* (out.open: the transport opens; out.idn: the outcome of the *IDN? query).
\* obj is the object as __init__ left it, also when it raised.
__init__(serial_port, initial_identity, out, st) ==
  LET ident0 == IF initial_identity = None THEN BoardIdentity(<<>>).value
                ELSE initial_identity[1]
      sw == SerialWrapper(serial_port, BAUDRATE, ident0, out.open)
  IN IF sw.kind = "raise"
     THEN [st |-> st, res |-> sw, obj |-> [_serial |-> None, _identity |-> None]]
     ELSE
       LET self0 == [_serial |-> sw.value, _identity |-> None]
       IN The({
          IF idr.res.kind = "raise"
          THEN [st |-> idr.st, res |-> idr.res,
                obj |-> [_serial |-> Some(self0._serial), _identity |-> None]]
          ELSE
            LET held == HeldIdentity(idr.res.value, ident0)
            IN IF ~TypeMatches(held)
               THEN [st |-> idr.st,
                     res |-> Raise(IncorrectBoardError(held.board_type, get_board_type)),
                     obj |-> [_serial |-> Some(TransportAtMismatch(self0._serial, held)),
                              _identity |-> Some(held)]]
               ELSE
                 LET self2 == [_serial |-> set_identity(self0._serial, held),
                               _identity |-> held]
                     h == Len(idr.st.heap) + 1
                 IN [st |-> [idr.st EXCEPT !.heap = Append(@, self2),
                                           !.hooks = Append(@, h)],
                     res |-> Return(h),
                     obj |-> [_serial |-> Some(self2._serial), _identity |-> Some(held)]]
          : idr \in {identify(self0, out.idn, st)} })

\* line 83: except IncorrectBoardError
CaughtAsIncorrectBoard(exc) == IsInstance(exc, "IncorrectBoardError")

\* a handler that catches transport failures only
CaughtAsException_transport(exc) == IsInstance(exc, "TransportError")

\* line 88: except Exception
CaughtAsException(exc) == IsInstance(exc, "Exception")

TypeWarning(exc) ==
  [level |-> "warning", msg |-> "returned type, expected type",
   returned |-> exc.returned_type, expected |-> exc.expected_type]

PortWarning(msg, port) == [level |-> "warning", msg |-> msg, port |-> port]

\* _get_valid_board(serial_port, initial_identity); obj is the object its
\* constructor call left behind, which the method drops unless it returns it
_get_valid_board(serial_port, initial_identity, out, st) ==
  The({
     IF c.res.kind = "return"
     THEN [st |-> c.st, res |-> Return(Some(c.res.value)), obj |-> c.obj]
     ELSE IF CaughtAsIncorrectBoard(c.res.exc)
     THEN [st |-> Warn(c.st, TypeWarning(c.res.exc)), res |-> Return(None), obj |-> c.obj]
     ELSE IF CaughtAsException(c.res.exc)
     THEN IF initial_identity # None
          THEN [st |-> IF initial_identity[1].board_type = MANUAL
                       THEN Warn(c.st, PortWarning("manually specified", serial_port))
                       ELSE IF initial_identity[1].manufacturer = SBOT_SIMULATOR
                       THEN Warn(c.st, PortWarning("simulator specified", serial_port))
                       ELSE c.st,
                res |-> Return(None), obj |-> c.obj]
          ELSE [st |-> Warn(c.st, PortWarning("board-like serial port", serial_port)),
                res |-> Return(None), obj |-> c.obj]
     ELSE [st |-> c.st, res |-> c.res, obj |-> c.obj]
     : c \in {__init__(serial_port, initial_identity, out, st)} })

(***************************************************************************)
(* The discovery sweep.  A dict is a function from its keys.               *)
(***************************************************************************)
EmptyDict == [k \in {} |-> 0]

\* boards.setdefault(key, value): an existing entry is kept
Put_keepfirst(d, key, value) ==
  [k \in DOMAIN d \cup {key} |-> IF k \in DOMAIN d THEN d[k] ELSE value]

\* line 126: boards[key] = value
Put(d, key, value) ==
  [k \in DOMAIN d \cup {key} |-> IF k = key THEN value ELSE d[k]]

\* lines 118-122: the synthetic pre-contact identity of a registry entry
SimulatorIdentity(board_info) ==
  BoardIdentityKw(SBOT_SIMULATOR, board_info.type_str, board_info.serial_number, EmptyStr)

\* the declared serial used as the key
SweepKey_declared(board, initial_identity) == initial_identity.asset_tag

\* line 126: the key a validated board is stored under
SweepKey(board, initial_identity) == board._identity.asset_tag

\* break in place of continue
AfterInvalid_break(rest) == <<>>

\* line 124: continue, the remaining candidates are still visited
AfterInvalid(rest) == rest

\* the completion of one _get_valid_board call of the sweep, noted in vals
Visited(v) == The({[st |-> [w.st EXCEPT !.vals = Append(@, w.res)], res |-> w.res] : w \in {v}})

RECURSIVE SweepLoop(_, _, _, _)
SweepLoop(infos, outs, acc, st) ==
  IF infos = <<>> THEN [st |-> st, res |-> Return(acc)]
  ELSE
    LET board_info == Head(infos)
        initial_identity == SimulatorIdentity(board_info)
    IN The({
       IF v.res.kind = "raise" THEN v
       ELSE IF v.res.value = None
       THEN SweepLoop(AfterInvalid(Tail(infos)), Tail(outs), acc, v.st)
       ELSE LET h == v.res.value[1]
            IN SweepLoop(Tail(infos), Tail(outs),
                         Put(acc, SweepKey(v.st.heap[h], initial_identity), h), v.st)
       : v \in {Visited(_get_valid_board(board_info.url, Some(initial_identity),
                                         Head(outs), st))} })

\* _get_simulator_boards(): registry is what get_simulator_boards('AccelerometerBoard')
\* lists, outs[i] is what the endpoint of the i-th entry does
_get_simulator_boards(registry, outs, st) == SweepLoop(registry, outs, EmptyDict, st)

\* outside the simulator nothing is swept and the mapping is empty
_get_supported_boards_hardware(manual_boards, in_simulator, registry, outs, st) ==
  IF in_simulator THEN _get_simulator_boards(registry, outs, st)
  ELSE [st |-> st, res |-> Return(EmptyDict)]

\* _get_supported_boards(manual_boards): both branches take the simulator path
_get_supported_boards(manual_boards, in_simulator, registry, outs, st) ==
  IF in_simulator THEN _get_simulator_boards(registry, outs, st)
  ELSE _get_simulator_boards(registry, outs, st)

(***************************************************************************)
(* Commands of a handle.                                                   *)
(***************************************************************************)
\* the four command methods of a handle
CommandOps == {"status", "reset", "acceleration", "identify"}

\* a status() that catches the failure of its query and returns ''
status_swallowing(self, q, st) ==
  [st |-> Sent(st, self._serial.port, STATUS),
   res |-> IF q.ok THEN Return(q.reply) ELSE Return(EmptyStr)]

status(self, q, st) == query(self._serial, STATUS, q, st)

reset(self, q, st) == query(self._serial, RESET, q, st)

\* float(x) of the numeric atoms, in hundredths
FloatTable ==
  [a \in {"1.0", "2.0", "-2.5", "9.81"} |->
     IF a = "1.0" THEN 100 ELSE IF a = "2.0" THEN 200
     ELSE IF a = "-2.5" THEN -250 ELSE 981]

float(x) ==
  IF Len(x) = 1 /\ x[1] \in DOMAIN FloatTable THEN Return(FloatTable[x[1]])
  ELSE Raise(Exc("ValueError"))

\* line 185: [float(x) for x in response.split(':')]
FloatList(fields) ==
  IF \E i \in 1..Len(fields) : float(fields[i]).kind = "raise"
  THEN Raise(Exc("ValueError"))
  ELSE Return([i \in 1..Len(fields) |-> float(fields[i]).value])

acceleration(self, q, st) ==
  LET r == query(self._serial, ACC_READ, q, st)
  IN IF r.res.kind = "raise" THEN r
     ELSE [st |-> r.st, res |-> FloatList(split(r.res.value))]

\* reset() called outside any try block
CleanupCatches_nothing(exc) == FALSE

\* line 195: except Exception
CleanupCatches(exc) == IsInstance(exc, "Exception")

CleanupWarning(self) ==
  [level |-> "warning", msg |-> "Failed to cleanup", asset_tag |-> self._identity.asset_tag]

_cleanup(self, q, st) ==
  LET r == reset(self, q, st)
  IN IF r.res.kind = "return" THEN [st |-> r.st, res |-> Return(None)]
     ELSE IF CleanupCatches(r.res.exc)
     THEN [st |-> Warn(r.st, CleanupWarning(self)), res |-> Return(None)]
     ELSE r

(***************************************************************************)
(* The environment: endpoints, what they reply, what the registry lists.   *)
(***************************************************************************)
URLs == {"u1", "u2"}

SN1 == Str("SN1")

SN2 == Str("SN2")

Acme == Str("Acme")

ReplySN1 == join(<<Acme, get_board_type, SN1, Str("1.0")>>)

ReplySN2 == join(<<Acme, get_board_type, SN2, Str("1.0")>>)

ReplyServo == join(<<Acme, Str("Servo"), SN1, Str("1.0")>>)

ReplyTwoFields == join(<<Acme, get_board_type>>)

ReplyFiveFields == join(<<Acme, get_board_type, SN1, Str("1.0"), Str("x")>>)

\* the reply that repeats the simulator's synthetic identity of serial SN1
ReplyAsDeclared == join(<<SBOT_SIMULATOR, get_board_type, SN1, EmptyStr>>)

\* replies to *IDN?: well-formed ones, a foreign board type, wrong field counts
IdnReplies ==
  {ReplySN1, ReplySN2, ReplyAsDeclared, ReplyServo, ReplyTwoFields, ReplyFiveFields}

\* replies to ACC:READ?
AccReplies ==
  { join(<<Str("1.0"), Str("-2.5"), Str("9.81")>>),
    join(<<Str("1.0"), Str("2.0")>>),
    join(<<Str("a"), Str("b"), Str("c")>>) }

TextReplies == { Str("OK") }

QueryOutcomes(replies) == {QFail} \cup {QReply(r) : r \in replies}

OpenFail == [open |-> FALSE, idn |-> QFail]

Opened(q) == [open |-> TRUE, idn |-> q]

\* what an endpoint may do while a handle is constructed on it
ConstructOutcomes == {OpenFail} \cup {Opened(q) : q \in QueryOutcomes(IdnReplies)}

\* what the endpoints of a sweep do
SweepOutcomes ==
  {Opened(q) : q \in QueryOutcomes({ReplySN1, ReplySN2, ReplyServo})}

InitialIdentities ==
  { None,
    Some(BoardIdentityKw(EmptyStr, MANUAL, EmptyStr, EmptyStr)),
    Some(BoardIdentityKw(SBOT_SIMULATOR, MANUAL, EmptyStr, EmptyStr)),
    Some(BoardIdentityKw(SBOT_SIMULATOR, get_board_type, SN1, EmptyStr)),
    Some(BoardIdentityKw(Acme, get_board_type, SN1, EmptyStr)) }

BoardInfos == [url : URLs, type_str : {get_board_type}, serial_number : {SN1}]

SeqsUpTo(S, n) == UNION {[1..k -> S] : k \in 0..n}

Reverse(q) == [i \in 1..Len(q) |-> q[Len(q) + 1 - i]]

(***************************************************************************)
(* The process: calls made by the application, then the exit hooks.        *)
(* last is the latest call: its arguments, what the endpoint did, its      *)
(* completion, and what it logged and sent.                                *)
(***************************************************************************)
CallState == [heap |-> heap, hooks |-> hooks, log |-> <<>>, sent |-> <<>>, vals |-> <<>>]

Start == [op |-> "start", res |-> Return(None), log |-> <<>>, sent |-> <<>>]

Init ==
  /\ heap = <<>>
  /\ hooks = <<>>
  /\ boards = EmptyDict
  /\ last = Start
  /\ phase = "running"
  /\ exitq = <<>>
  /\ escaped = 0

GetValidBoard(port, ident, out) ==
  /\ phase = "running"
  /\ Len(heap) < MaxHandles
  /\ \E r \in {_get_valid_board(port, ident, out, CallState)} :
        /\ heap' = r.st.heap
        /\ hooks' = r.st.hooks
        /\ last' = [op |-> "_get_valid_board", port |-> port, ident |-> ident,
                    out |-> out, res |-> r.res, log |-> r.st.log, sent |-> r.st.sent,
                    obj |-> r.obj]
  /\ UNCHANGED <<boards, phase, exitq, escaped>>

\* a call of _get_supported_boards; args is what last notes of the argument
\* and of the IN_SIMULATOR flag
CallSupportedBoards(manual_boards, in_simulator, registry, outs, args) ==
  /\ phase = "running"
  /\ Len(heap) + Len(registry) <= MaxHandles
  /\ \E r \in {_get_supported_boards(manual_boards, in_simulator, registry, outs,
                                      CallState)} :
        /\ heap' = r.st.heap
        /\ hooks' = r.st.hooks
        /\ boards' = IF r.res.kind = "return" THEN r.res.value ELSE boards
        /\ last' = [op |-> "_get_supported_boards", registry |-> registry,
                    outs |-> outs, res |-> r.res, log |-> r.st.log, sent |-> r.st.sent,
                    vals |-> r.st.vals, args |-> args]
  /\ UNCHANGED <<phase, exitq, escaped>>

\* _get_supported_boards() with the default argument, the flag either way
GetSupportedBoards(registry, outs) ==
  \E in_simulator \in BOOLEAN :
     CallSupportedBoards(None, in_simulator, registry, outs, None)

\* _get_supported_boards(manual_boards) under a given IN_SIMULATOR
GetSupportedBoardsWith(manual_boards, in_simulator, registry, outs) ==
  CallSupportedBoards(manual_boards, in_simulator, registry, outs,
                      Some([manual_boards |-> manual_boards,
                            in_simulator |-> in_simulator]))

\* the previous call was a command on handle h and it raised
AfterFailure(h) == last.op \in CommandOps /\ last.h = h /\ last.res.kind = "raise"

\* a command call on handle h; after_failure notes that the call before it,
\* on the same handle, raised
Command(op, h, q, call) ==
  /\ \E r \in {call} :
       /\ heap' = r.st.heap
       /\ hooks' = r.st.hooks
       /\ last' = [op |-> op, h |-> h, q |-> q, res |-> r.res,
                   log |-> r.st.log, sent |-> r.st.sent,
                   after_failure |-> AfterFailure(h)]
  /\ UNCHANGED <<boards, phase, exitq, escaped>>

Status(h, q) ==
  /\ phase = "running"
  /\ Command("status", h, q, status(heap[h], q, CallState))

Reset(h, q) ==
  /\ phase = "running"
  /\ Command("reset", h, q, reset(heap[h], q, CallState))

Acceleration(h, q) ==
  /\ phase = "running"
  /\ Command("acceleration", h, q, acceleration(heap[h], q, CallState))

\* an identify() that stores the identity it read in the handle and its transport
Identify_caching(h, q) ==
  /\ phase = "running"
  /\ \E r \in {identify(heap[h], q, CallState)} :
       /\ heap' = IF r.res.kind = "raise" THEN heap
                  ELSE [heap EXCEPT ![h] = [_serial |-> set_identity(@._serial, r.res.value),
                                            _identity |-> r.res.value]]
       /\ last' = [op |-> "identify", h |-> h, q |-> q, res |-> r.res,
                   log |-> r.st.log, sent |-> r.st.sent,
                   after_failure |-> AfterFailure(h)]
  /\ UNCHANGED <<hooks, boards, phase, exitq, escaped>>

Identify(h, q) ==
  /\ phase = "running"
  /\ Command("identify", h, q, identify(heap[h], q, CallState))

\* the interpreter exits: the atexit callbacks run last registered first
Exit ==
  /\ phase = "running"
  /\ phase' = "exiting"
  /\ exitq' = Reverse(hooks)
  /\ last' = [op |-> "exit", res |-> Return(None), log |-> <<>>, sent |-> <<>>]
  /\ UNCHANGED <<heap, hooks, boards, escaped>>

\* one atexit callback: the _cleanup of the handle it was registered for
RunExitHook(q) ==
  /\ phase = "exiting"
  /\ exitq # <<>>
  /\ \E h \in {Head(exitq)} :
       \E r \in {_cleanup(heap[h], q, CallState)} :
          /\ last' = [op |-> "_cleanup", h |-> h, q |-> q, res |-> r.res,
                      log |-> r.st.log, sent |-> r.st.sent]
          /\ escaped' = IF r.res.kind = "raise" THEN escaped + 1 ELSE escaped
  /\ exitq' = Tail(exitq)
  /\ UNCHANGED <<heap, hooks, boards, phase>>

Commands ==
  \/ \E h \in 1..Len(heap), q \in QueryOutcomes(TextReplies) : Status(h, q)
  \/ \E h \in 1..Len(heap), q \in QueryOutcomes(TextReplies) : Reset(h, q)
  \/ \E h \in 1..Len(heap), q \in QueryOutcomes(AccReplies) : Acceleration(h, q)
  \/ \E h \in 1..Len(heap), q \in QueryOutcomes({ReplySN1, ReplySN2}) : Identify(h, q)

Teardown ==
  \/ Exit
  \/ \E q \in QueryOutcomes(TextReplies) : RunExitHook(q)

\* The application: discovery sweeps, commands on the handles, exit.
Next ==
  \/ \E registry \in SeqsUpTo(BoardInfos, MaxCandidates) :
       \E outs \in [1..Len(registry) -> SweepOutcomes] :
         GetSupportedBoards(registry, outs)
  \/ Commands
  \/ Teardown

Spec == Init /\ [][Next]_vars

\* The candidate validator called directly, with any expected identity.
NextValidate ==
  \/ \E port \in URLs, ident \in InitialIdentities, out \in ConstructOutcomes :
       GetValidBoard(port, ident, out)
  \/ Teardown

SpecValidate == Init /\ [][NextValidate]_vars

\* what an endpoint may do in the specification of the traffic: refuse to
\* open, fail the query, reply as an accelerometer, reply as a foreign board
SendOutcomes ==
  {OpenFail} \cup {Opened(q) : q \in QueryOutcomes({ReplySN1, ReplyServo})}

\* The traffic of every kind of call: sweeps and direct validations on
\* endpoints that may also refuse to open, commands, exit.
NextSends ==
  \/ \E registry \in SeqsUpTo(BoardInfos, MaxCandidates) :
       \E outs \in [1..Len(registry) -> SendOutcomes] :
         GetSupportedBoards(registry, outs)
  \/ \E port \in URLs, ident \in InitialIdentities, out \in SendOutcomes :
       GetValidBoard(port, ident, out)
  \/ Commands
  \/ Teardown

SpecSends == Init /\ [][NextSends]_vars

\* a serial port that is no simulator url
ManualPorts == {"u1", "ttyACM0"}

\* the manual_boards argument: None, the empty list, a list of one port
ManualBoards == {None} \cup {Some(l) : l \in SeqsUpTo(ManualPorts, 1)}

ManualOutcomes == {Opened(q) : q \in QueryOutcomes({ReplySN1})}

\* The sweep called with every manual_boards argument, in and out of the
\* simulator.
NextManual ==
  \/ \E manual_boards \in ManualBoards, in_simulator \in BOOLEAN :
       \E registry \in SeqsUpTo(BoardInfos, MaxCandidates) :
         \E outs \in [1..Len(registry) -> ManualOutcomes] :
           GetSupportedBoardsWith(manual_boards, in_simulator, registry, outs)
  \/ Teardown

SpecManual == Init /\ [][NextManual]_vars

(***************************************************************************)
(* The reply parsers on their own: identify and acceleration of a Verified *)
(* handle, applied to every reply line of at most MaxLen atoms.            *)
(***************************************************************************)
ParseAlphabet == {Colon, "Accelerometer", "1.0"}

ProbeIdentity == BoardIdentity(split(ReplySN1)).value

ProbeBoard ==
  [_serial |-> [port |-> "u1", baud |-> BAUDRATE, identity |-> ProbeIdentity],
   _identity |-> ProbeIdentity]

InitParse ==
  /\ heap = <<ProbeBoard>>
  /\ hooks = <<1>>
  /\ boards = Put(EmptyDict, ProbeIdentity.asset_tag, 1)
  /\ \E s \in SeqsUpTo(ParseAlphabet, MaxLen) :
       last = [op |-> "reply", reply |-> s, res |-> Return(None),
               log |-> <<>>, sent |-> <<>>]
  /\ phase = "running"
  /\ exitq = <<>>
  /\ escaped = 0

IdentifyReply ==
  /\ last.op = "reply"
  /\ Identify(1, QReply(last.reply))

AccelerationReply ==
  /\ last.op = "reply"
  /\ Acceleration(1, QReply(last.reply))

NextParse == IdentifyReply \/ AccelerationReply

SpecParse == InitParse /\ [][NextParse]_vars

(***************************************************************************)
(* Properties.  A reply is read here by the positions of its colons,       *)
(* independently of split.                                                 *)
(***************************************************************************)
ColonsBefore(s, i) == Cardinality({j \in 1..(i - 1) : s[j] = Colon})

ColonCount(s) == ColonsBefore(s, Len(s) + 1)

FieldCount(s) == ColonCount(s) + 1

\* the position of the k-th colon of s; 0 before the first field, Len(s)+1 after the last
ColonPos(s, k) ==
  IF k = 0 THEN 0
  ELSE IF k > ColonCount(s) THEN Len(s) + 1
  ELSE CHOOSE i \in 1..Len(s) : s[i] = Colon /\ ColonsBefore(s, i) = k - 1

\* the k-th colon-separated field of s, the empty string when s has fewer fields
FieldAt(s, k) ==
  IF k > FieldCount(s) THEN EmptyStr
  ELSE SubSeq(s, ColonPos(s, k - 1) + 1, ColonPos(s, k) - 1)

Replied(out) == out.open /\ out.idn.ok

\* the endpoint answered *IDN? with an identity of a foreign board type
ForeignType(out) ==
  /\ Replied(out)
  /\ FieldCount(out.idn.reply) <= 4
  /\ FieldAt(out.idn.reply, 2) # get_board_type

\* the endpoint answered *IDN? with a four-field identity of the accepted type
Accepted(out) ==
  /\ Replied(out)
  /\ FieldCount(out.idn.reply) = 4
  /\ FieldAt(out.idn.reply, 2) = get_board_type

Range(f) == {f[x] : x \in DOMAIN f}

\* C1: _get_valid_board always completes by returning None or a handle of the
\* heap, whatever the endpoint does and whatever identity is expected; it never
\* raises.
C1_NeverRaises ==
  last.op = "_get_valid_board" =>
    /\ last.res.kind = "return"
    /\ \/ last.res.value = None
       \/ /\ Len(last.res.value) = 1
          /\ last.res.value[1] \in 1..Len(heap)

C1_Witness ==
  /\ last.op = "_get_valid_board"
  /\ last.ident = None
  /\ last.out = Opened(QReply(ReplyFiveFields))
  /\ last.res = Return(None)

\* C2: in a sweep, a candidate whose reply carries a foreign board type gets
\* None from _get_valid_board, and the sweep retains nothing for it: every handle
\* and every teardown hook the sweep adds belongs to a candidate that did not
\* reply with a foreign type, and every handle in the mapping, on the heap or
\* behind a hook is of type 'Accelerometer'.
C2_TypeRejection ==
  [][last'.op = "_get_supported_boards" =>
       LET n == Len(last'.registry)
           foreign == {i \in 1..n : ForeignType(last'.outs[i])}
       IN /\ \A i \in foreign : i <= Len(last'.vals) /\ last'.vals[i] = Return(None)
          /\ Len(heap') - Len(heap) <= n - Cardinality(foreign)
          /\ Len(hooks') - Len(hooks) <= n - Cardinality(foreign)
          /\ \A h \in 1..Len(heap') : heap'[h]._identity.board_type = get_board_type
          /\ Range(hooks') \subseteq 1..Len(heap')
          /\ Range(boards') \subseteq 1..Len(heap')]_vars

C2_Witness ==
  /\ last.op = "_get_supported_boards"
  /\ Len(last.registry) = 2
  /\ ForeignType(last.outs[1])
  /\ Accepted(last.outs[2])
  /\ Cardinality(DOMAIN boards) = 1
  /\ Len(hooks) = 1

\* C3: every entry of a sweep's mapping is keyed by the asset tag its handle
\* resolved from the device, and the handle's board type is 'Accelerometer'.
C3_SweepKey ==
  /\ \A k \in DOMAIN boards :
       /\ boards[k] \in 1..Len(heap)
       /\ heap[boards[k]]._identity.asset_tag = k
       /\ heap[boards[k]]._identity.board_type = get_board_type
  /\ last.op = "_get_supported_boards" /\ last.res.kind = "return" =>
       last.res.value = boards

\* the registry declares serial SN1, the device reports SN2: the key is SN2
C3_Witness ==
  /\ last.op = "_get_supported_boards"
  /\ \A i \in 1..Len(last.registry) : last.registry[i].serial_number = SN1
  /\ SN2 \in DOMAIN boards
  /\ SN1 \notin DOMAIN boards

\* C4: a sweep returns normally and validates every candidate, wherever a
\* failing one stands: a candidate that replies with a four-field identity of
\* the accepted type validates, one whose query fails does not, and the keys of
\* the mapping are exactly the asset tags reported by the candidates that
\* validated.
C4_SweepSkipsFailures ==
  last.op = "_get_supported_boards" =>
    /\ last.res.kind = "return"
    /\ Len(last.vals) = Len(last.registry)
    /\ \A i \in 1..Len(last.registry) :
         /\ last.vals[i].kind = "return"
         /\ Accepted(last.outs[i]) => last.vals[i].value # None
         /\ ~Replied(last.outs[i]) => last.vals[i].value = None
    /\ DOMAIN last.res.value =
         {FieldAt(last.outs[i].idn.reply, 3) :
            i \in {j \in 1..Len(last.registry) : last.vals[j].value # None}}

\* a failing candidate listed first, a valid one after it
C4_Witness ==
  /\ last.op = "_get_supported_boards"
  /\ Len(last.registry) = 2
  /\ ~last.outs[1].idn.ok
  /\ last.outs[2] = Opened(QReply(ReplySN1))
  /\ DOMAIN last.res.value = {SN1}

\* C5: a handle returned by _get_valid_board holds the identity read from the
\* *IDN? reply, field by field; it is not the default identity, and not the
\* pre-contact identity whenever that one differs from the reply.
C5_HeldIdentityIsResolved ==
  last.op = "_get_valid_board" /\ last.res.kind = "return" /\ last.res.value # None =>
    LET held == heap[last.res.value[1]]._identity
        reply == last.out.idn.reply
    IN /\ held = BoardIdentityKw(FieldAt(reply, 1), FieldAt(reply, 2),
                                 FieldAt(reply, 3), FieldAt(reply, 4))
       /\ held # DefaultIdentity
       /\ last.ident # None /\ FieldAt(reply, 3) # last.ident[1].asset_tag =>
            held # last.ident[1]

\* expected (sbot_simulator, SN1), the device reports (Acme, SN2)
C5_Witness ==
  /\ last.op = "_get_valid_board"
  /\ last.ident = Some(BoardIdentityKw(SBOT_SIMULATOR, get_board_type, SN1, EmptyStr))
  /\ last.out = Opened(QReply(ReplySN2))
  /\ last.res.value # None
  /\ heap[last.res.value[1]]._identity.asset_tag = SN2

\* C6: every _get_valid_board call that returns None has logged a warning.
C6_FailureWarns ==
  last.op = "_get_valid_board" /\ last.res = Return(None) => Len(last.log) >= 1

\* C7: acceleration raises whenever the ACC:READ? reply does not have exactly
\* three fields.
C7_AccelerationArity ==
  last.op = "acceleration" /\ last.q.ok /\ FieldCount(last.q.reply) # 3 =>
    last.res.kind = "raise"

\* C8: no handle is constructed from an *IDN? reply whose field count is not
\* four.
C8_IdentifyFieldCount ==
  last.op = "_get_valid_board" /\ Replied(last.out)
    /\ FieldCount(last.out.idn.reply) # 4 =>
      last.res = Return(None)

\* C9: _cleanup returns normally after exactly one *RESET on its handle's port,
\* logging one warning exactly when the query failed; no error escapes an exit
\* hook, and the hooks registered before it are all still to run.
C9_CleanupNeverRaises ==
  /\ escaped = 0
  /\ last.op = "_cleanup" =>
       /\ last.res = Return(None)
       /\ last.sent = <<[port |-> heap[last.h]._serial.port, cmd |-> RESET]>>
       /\ last.log = IF last.q.ok THEN <<>> ELSE <<CleanupWarning(heap[last.h])>>
       /\ last.h = hooks[Len(exitq) + 1]
       /\ exitq = Reverse(SubSeq(hooks, 1, Len(exitq)))

\* the reset of one handle failed and another handle's hook is still to run
C9_Witness ==
  /\ last.op = "_cleanup"
  /\ ~last.q.ok
  /\ exitq # <<>>

\* C10: identify on a reply of exactly four fields returns the identity made of
\* those fields in order, and joining its fields with ':' gives the reply back.
C10_IdentityRoundTrip ==
  last.op = "identify" /\ last.q.ok /\ FieldCount(last.q.reply) = 4 =>
    /\ last.res.kind = "return"
    /\ last.res.value.manufacturer = FieldAt(last.q.reply, 1)
    /\ last.res.value.board_type = FieldAt(last.q.reply, 2)
    /\ last.res.value.asset_tag = FieldAt(last.q.reply, 3)
    /\ last.res.value.sw_version = FieldAt(last.q.reply, 4)
    /\ join(<<last.res.value.manufacturer, last.res.value.board_type,
              last.res.value.asset_tag, last.res.value.sw_version>>) = last.q.reply

\* a reply with an empty first field and a two-atom second field
C10_Witness ==
  /\ last.op = "identify"
  /\ last.q.reply = <<Colon, "1.0", "Accelerometer", Colon, "1.0", Colon>>
  /\ last.res.kind = "return"

\* C11: a command whose query fails raises the transport's error to its caller,
\* it is not turned into a value; and the handle stays usable: a command whose
\* query succeeds, also right after a failed one on the same handle, returns
\* its reply (status, reset), the identity of the reply (identify) or the
\* numbers of the reply (acceleration; only an unparsable reply raises, and
\* then a ValueError).
C11_FailurePropagates ==
  last.op \in CommandOps =>
    /\ ~last.q.ok => last.res = Raise(Exc("TransportError"))
    /\ last.q.ok /\ last.op \in {"status", "reset"} =>
         last.res = Return(last.q.reply)
    /\ last.q.ok /\ last.op = "identify" /\ FieldCount(last.q.reply) <= 4 =>
         /\ last.res.kind = "return"
         /\ last.res.value.asset_tag = FieldAt(last.q.reply, 3)
    /\ last.q.ok /\ last.op = "acceleration" =>
         \/ /\ last.res.kind = "return"
            /\ Len(last.res.value) = FieldCount(last.q.reply)
         \/ last.res = Raise(Exc("ValueError"))

\* status() failed on a handle, and the next status() on it returned the reply
C11_Witness ==
  /\ last.op = "status"
  /\ last.after_failure
  /\ last.res = Return(Str("OK"))

\* C12: the side effects of construction come after the type check.  A
\* construction that ends Verified has appended exactly its handle to the heap
\* and exactly one teardown hook for it, and its transport caches the resolved
\* identity.  One that ends Rejected (the transport did not open, the query
\* failed, the reply did not make an identity, or the type mismatched) leaves
\* heap and hooks as they were, and its transport, if it opened, still caches
\* the pre-contact identity.  At exit a *RESET goes only to the port of a
\* handle that has a hook, that is of a Verified handle.
C12_EffectsAfterTypeCheck ==
  [][/\ last'.op = "_get_valid_board" =>
          LET obj == last'.obj
              pre == IF last'.ident = None THEN DefaultIdentity ELSE last'.ident[1]
              reply == last'.out.idn.reply
              verified == Replied(last'.out) /\ FieldCount(reply) <= 4
                            /\ FieldAt(reply, 2) = get_board_type
          IN /\ verified <=> hooks' # hooks
             /\ verified <=> last'.res.value # None
             /\ verified =>
                  /\ heap' = Append(heap, [_serial |-> obj._serial[1],
                                           _identity |-> obj._identity[1]])
                  /\ hooks' = Append(hooks, Len(heap'))
                  /\ obj._serial[1].identity = obj._identity[1]
                  /\ obj._identity[1].asset_tag = FieldAt(reply, 3)
             /\ ~verified =>
                  /\ heap' = heap
                  /\ last'.out.open <=> obj._serial # None
                  /\ obj._serial # None => obj._serial[1].identity = pre
     /\ last'.op = "_cleanup" =>
          /\ last'.h \in Range(hooks)
          /\ heap[last'.h]._identity.board_type = get_board_type
          /\ \A i \in 1..Len(last'.sent) :
               last'.sent[i].port = heap[last'.h]._serial.port
     ]_vars

\* Rejected by the type check: the identity was resolved, the transport still
\* caches the expected one, and nothing was registered
C12_Witness ==
  /\ last.op = "_get_valid_board"
  /\ last.ident = Some(BoardIdentityKw(Acme, get_board_type, SN1, EmptyStr))
  /\ last.out = Opened(QReply(ReplyServo))
  /\ last.obj._identity = Some(BoardIdentity(split(ReplyServo)).value)
  /\ last.obj._serial[1].identity = last.ident[1]
  /\ hooks = <<>>

\* C13: a _get_valid_board call that returns None has logged exactly one
\* warning, chosen by priority: the 'returned type' warning for a board-type
\* mismatch whatever identity was expected; otherwise the 'manually specified'
\* warning for an expected board_type 'manual', also with manufacturer
\* 'sbot_simulator'; the 'simulator' warning only for an expected identity that
\* is not 'manual' and has manufacturer 'sbot_simulator'; the 'board-like
\* serial port' warning when no identity was expected.
C13_Classification ==
  last.op = "_get_valid_board" /\ last.res = Return(None) =>
    LET mismatch == ForeignType(last.out)
        manual == last.ident # None /\ last.ident[1].board_type = MANUAL
        simulator == last.ident # None /\ last.ident[1].manufacturer = SBOT_SIMULATOR
    IN /\ Len(last.log) = 1
       /\ last.log[1].msg \in {"returned type, expected type", "manually specified",
                               "simulator specified", "board-like serial port"}
       /\ mismatch <=> last.log[1].msg = "returned type, expected type"
       /\ ~mismatch /\ manual => last.log[1].msg = "manually specified"
       /\ last.log[1].msg = "simulator specified" => ~manual /\ simulator
       /\ ~mismatch /\ last.ident = None => last.log[1].msg = "board-like serial port"

\* the teardown hooks registered for handles bound to endpoint url
HooksOf(url) == {i \in 1..Len(hooks) : heap[hooks[i]]._serial.port = url}

\* C14: every live handle has a teardown hook, and no endpoint has more than
\* one hook registered for it, so that at exit each endpoint held by a live
\* handle receives *RESET exactly once; also after repeated sweeps and for a
\* handle displaced from the mapping.
C14_OneResetPerEndpoint ==
  /\ \A h \in 1..Len(heap) : h \in Range(hooks)
  /\ \A url \in URLs : Cardinality(HooksOf(url)) <= 1
  /\ last.op = "_cleanup" =>
       \A i \in 1..Len(exitq) :
          heap[exitq[i]]._serial.port # heap[last.h]._serial.port

\* C15: no two handles of the heap own a transport bound to the same endpoint.
C15_ExclusiveEndpoint ==
  \A i, j \in 1..Len(heap) :
     heap[i]._serial.port = heap[j]._serial.port => i = j

\* the command each command method sends
CommandOf(op) ==
  IF op = "status" THEN STATUS
  ELSE IF op = "reset" THEN RESET
  ELSE IF op = "acceleration" THEN ACC_READ
  ELSE IDN

\* one *IDN? to each of the listed candidates, in order
IdnToEach(registry, which) ==
  LET F[i \in 0..Len(registry)] ==
        IF i = 0 THEN <<>>
        ELSE IF i \in which
        THEN Append(F[i - 1], [port |-> registry[i].url, cmd |-> IDN])
        ELSE F[i - 1]
  IN F[Len(registry)]

\* what C16 says of _get_valid_board and of the command methods
NoRetryInCalls ==
  /\ last.op = "_get_valid_board" =>
       \/ last.sent = <<>>
       \/ last.sent = <<[port |-> last.port, cmd |-> IDN]>>
  /\ last.op \in CommandOps =>
       last.sent = <<[port |-> heap[last.h]._serial.port, cmd |-> CommandOf(last.op)]>>

\* C16 as stated: no retries.  A _get_valid_board call sends at most one *IDN?
\* to its endpoint and nothing else; a sweep sends exactly one *IDN? to each
\* candidate; a command call sends exactly its one command.
C16_NoRetries ==
  /\ NoRetryInCalls
  /\ last.op = "_get_supported_boards" =>
       last.sent = IdnToEach(last.registry, 1..Len(last.registry))

\* C16 amended: as above, but a sweep sends exactly one *IDN? to each candidate
\* whose transport opened and nothing to a candidate whose transport did not
\* open; a _get_valid_board call sends its one *IDN? exactly when the
\* transport opened.
C16_NoRetriesOnceOpened ==
  /\ NoRetryInCalls
  /\ last.op = "_get_valid_board" => (last.sent # <<>> <=> last.out.open)
  /\ last.op = "_get_supported_boards" =>
       last.sent = IdnToEach(last.registry,
                             {i \in 1..Len(last.registry) : last.outs[i].open})

\* a sweep of two candidates: the first does not open, the query of the second
\* fails and is not repeated
C16_Witness ==
  /\ last.op = "_get_supported_boards"
  /\ Len(last.registry) = 2
  /\ last.outs = <<OpenFail, Opened(QFail)>>
  /\ last.sent = <<[port |-> last.registry[2].url, cmd |-> IDN]>>

\* the candidates of the latest sweep that validated
Validated == {i \in 1..Len(last.registry) : last.vals[i].value # None}

\* the asset tag candidate i of the latest sweep reported
ReportedTag(i) == FieldAt(last.outs[i].idn.reply, 3)

\* C17: the mapping a sweep returns has one entry for each asset tag reported
\* by a candidate that validated; the entry's handle is the one built from the
\* last such candidate in registry order; the mapping has no more entries than
\* the registry has candidates.
C17_LastWriteWins ==
  last.op = "_get_supported_boards" =>
    /\ DOMAIN last.res.value = {ReportedTag(i) : i \in Validated}
    /\ \A k \in DOMAIN last.res.value :
         \E i \in Validated :
            /\ ReportedTag(i) = k
            /\ \A j \in Validated : ReportedTag(j) = k => j <= i
            /\ last.res.value[k] = last.vals[i].value[1]
            /\ heap[last.res.value[k]]._serial.port = last.registry[i].url
    /\ Cardinality(DOMAIN last.res.value) <= Len(last.registry)

\* two endpoints that both report SN1: the entry holds the second one's handle
C17_Witness ==
  /\ last.op = "_get_supported_boards"
  /\ Len(last.registry) = 2
  /\ last.registry[1].url = "u1" /\ last.registry[2].url = "u2"
  /\ last.outs = <<Opened(QReply(ReplySN1)), Opened(QReply(ReplySN1))>>
  /\ Validated = {1, 2}
  /\ DOMAIN boards = {SN1}
  /\ heap[boards[SN1]]._serial.port = "u2"

\* the latest sweep ended as the call with the default argument inside the
\* simulator would have on the same registry and devices: same completion,
\* same commands sent to the same endpoints, same handles and hooks.  Any two
\* calls that differ only in manual_boards or IN_SIMULATOR then end alike.
SameForAllArgs ==
  [][last'.op = "_get_supported_boards" =>
       \A other \in {_get_supported_boards(None, TRUE, last'.registry, last'.outs,
                                           CallState)} :
          /\ other.res = last'.res
          /\ other.st.sent = last'.sent
          /\ other.st.heap = heap'
          /\ other.st.hooks = hooks']_vars

C19_CommandsKeepIdentity ==
  /\ [][last'.op \in CommandOps => heap' = heap /\ boards' = boards]_vars
  /\ [](\A h \in 1..Len(heap) : heap[h]._serial.identity = heap[h]._identity)
  /\ [](\A k \in DOMAIN boards : heap[boards[k]]._identity.asset_tag = k)

\* identify() returned an identity with another asset tag than the one the
\* handle holds and is stored under
C19_Witness ==
  /\ last.op = "identify"
  /\ last.res.kind = "return"
  /\ last.res.value.asset_tag = SN2
  /\ SN1 \in DOMAIN boards
  /\ boards[SN1] = last.h
  /\ heap[last.h]._identity.asset_tag = SN1
  /\ heap[last.h]._serial.identity.asset_tag = SN1

====
